---------------------------- MODULE Spec2Model ----------------------------
(***************************************************************************)
(* A model of update_publications.py (NIE LAB Publication Auto-Updater v3). *)
(*                                                                         *)
(* Four specifications share the module:                                   *)
(*   FetchSpec  get_publications: the paginated SerpAPI retrieval          *)
(*   NormSpec   normalize_journal_name applied once and twice              *)
(*   AggSpec    the grouping and ordering done by generate_html            *)
(*   Spec       main(): consecutive runs of the whole pipeline against the *)
(*              files it persists (if_cache.json, publications.json,       *)
(*              index.html)                                                *)
(*                                                                         *)
(* Text is a sequence of one-character strings.  Python's None is the      *)
(* empty tuple and a number v inside an optional is <<v>>; impact values   *)
(* are kept in tenths (42 stands for 4.2), the unit round(impact, 1)       *)
(* produces.                                                               *)
(***************************************************************************)
EXTENDS Integers, Sequences, FiniteSets, TLC

VARIABLES
    \* ---- get_publications (FetchSpec)
    max_papers,     \* the argument of get_publications
    all_pubs,       \* the list the loop accumulates
    start,          \* the offset of the next request
    fpc,            \* "loop", "return", "done" or "raised"
    result,         \* the list returned, all_pubs[:max_papers]
    requests,       \* log: the start offset of every request issued
    page_sizes,     \* log: the number of articles in every response
    fetched,        \* log: every article received, in order of receipt
    \* ---- normalize_journal_name (NormSpec)
    n_input,        \* the raw venue string
    n_once,         \* normalize(n_input)
    n_twice,        \* normalize(normalize(n_input))
    npc,            \* "start", "once" or "twice"
    \* ---- generate_html grouping (AggSpec)
    works,          \* the publications handed to generate_html
    groups,         \* the year sections emitted: <<[year, pubs]>>
    apc,            \* "start" or "done"
    \* ---- main (Spec)
    pc,             \* the step main() is at
    run,            \* how many runs have been started
    publications,   \* the list get_publications returned to main
    cache,          \* the dict inside get_all_impact_factors
    journals,       \* the keys of the set `journals` not yet iterated
    cacheFile,      \* docs/if_cache.json
    jsonFile,       \* docs/publications.json
    htmlFile,       \* docs/index.html
    wrote,          \* log: the files this run has written
    batch,          \* log: the set `journals` as first collected in this run
    loaded,         \* log: the cache as loaded at the start of this batch
    attempted,      \* log: the keys requested from OpenAlex in this batch
    failedKeys,     \* log: the keys whose request raised in this batch
    lastLookup,     \* log: <<key, outcome>> of the latest request of this batch
    lookups,        \* log: the requests of this batch, in order: for which journal
                    \*      of the set, with which search key, answered how
    failedAt,       \* log: the step at which this run failed, "" if it has not
    lookupCount,    \* log: requests issued per key over all runs
    saves           \* log: how many times this run called save_if_cache

fetchVars == <<max_papers, all_pubs, start, fpc, result, requests, page_sizes, fetched>>
normVars  == <<n_input, n_once, n_twice, npc>>
aggVars   == <<works, groups, apc>>
pipeVars  == <<pc, run, publications, cache, journals, cacheFile, jsonFile, htmlFile,
               wrote, batch, loaded, attempted, failedKeys, lastLookup, lookups, failedAt,
               lookupCount, saves>>
vars      == <<fetchVars, normVars, aggVars, pipeVars>>

-----------------------------------------------------------------------------
(* Python values *)

None == <<>>
Some(v) == <<v>>

Min(a, b) == IF a < b THEN a ELSE b
Max(a, b) == IF a > b THEN a ELSE b

\* s[:n], Python's prefix slice: a negative n counts from the end.
SlicePrefix(s, n) ==
    IF n >= 0 THEN SubSeq(s, 1, Min(n, Len(s)))
              ELSE SubSeq(s, 1, Max(Len(s) + n, 0))

-----------------------------------------------------------------------------
(* normalize_journal_name *)

Space == {" ", "\t"}
Digit == {"0", "1", "2", "3", "4", "5", "6", "7", "8", "9"}

\* The first index >= i of s whose character is not in class, Len(s) + 1 if none.
RECURSIVE SkipClass(_, _, _)
SkipClass(s, i, class) ==
    IF i <= Len(s) /\ s[i] \in class THEN SkipClass(s, i + 1, class) ELSE i

\* Whether the pattern \s+\d+\s*[\(,] matches s starting at index i.
MatchesAt(s, i) ==
    LET j == SkipClass(s, i, Space)
        k == SkipClass(s, j, Digit)
        l == SkipClass(s, k, Space)
    IN  /\ j > i
        /\ k > j
        /\ l <= Len(s)
        /\ s[l] \in {"(", ","}

\* re.split(r'\s+\d+\s*[\(,]', name)[0]: the text before the leftmost match.
SplitFirst(name) ==
    LET hits == {i \in 1..Len(name) : MatchesAt(name, i)}
    IN  IF hits = {} THEN name
        ELSE SubSeq(name, 1, (CHOOSE i \in hits : \A h \in hits : i <= h) - 1)

\* s.rstrip(chars)
RECURSIVE RStrip(_, _)
RStrip(s, chars) ==
    IF s # <<>> /\ s[Len(s)] \in chars THEN RStrip(SubSeq(s, 1, Len(s) - 1), chars) ELSE s

\* s.strip(): whitespace off both ends.
Strip(s) ==
    LET t == RStrip(s, Space)
    IN  SubSeq(t, SkipClass(t, 1, Space), Len(t))

\* str.lower() on the letters the model uses.
LowerChar(c) == CASE c = "A" -> "a" [] c = "B" -> "b" [] c = "C" -> "c" [] OTHER -> c
Lower(s) == [i \in 1..Len(s) |-> LowerChar(s[i])]

\* The characters cleaned.rstrip('.,; ') removes.
TrailingChars == {".", ",", ";", " "}

normalize_journal_name(name) ==
    IF name = <<>> THEN <<>>
    ELSE Lower(RStrip(Strip(SplitFirst(name)), TrailingChars))

-----------------------------------------------------------------------------
(* NormSpec: normalize_journal_name on every short string *)

\* The longest raw venue string tried.
MaxNameLen == 4

\* One character of each kind the function tells apart: letters of both cases, a
\* digit, the two kinds of whitespace, the separators of the pattern and the
\* characters rstrip removes.
Alphabet == {"a", "A", "1", " ", "\t", ",", ".", "(", ";"}

RECURSIVE StringsUpTo(_)
StringsUpTo(n) ==
    IF n = 0 THEN {<<>>}
    ELSE LET shorter == StringsUpTo(n - 1)
         IN  shorter \cup {Append(s, c) : s \in {t \in shorter : Len(t) = n - 1}, c \in Alphabet}

FetchIdle ==
    /\ max_papers = 0 /\ all_pubs = <<>> /\ start = 0 /\ fpc = "idle"
    /\ result = <<>> /\ requests = <<>> /\ page_sizes = <<>> /\ fetched = <<>>

NormIdle ==
    /\ n_input = <<>> /\ n_once = <<>> /\ n_twice = <<>> /\ npc = "idle"

AggIdle ==
    /\ works = <<>> /\ groups = <<>> /\ apc = "idle"

PipeIdle ==
    /\ pc = "idle" /\ run = 0 /\ publications = <<>> /\ cache = <<>> /\ journals = {}
    /\ cacheFile = [state |-> "missing", data |-> <<>>]
    /\ jsonFile = None /\ htmlFile = None /\ wrote = {}
    /\ batch = {} /\ loaded = <<>> /\ attempted = {} /\ failedKeys = {}
    /\ lastLookup = <<>> /\ lookups = <<>> /\ failedAt = ""
    /\ lookupCount = <<>> /\ saves = 0

NormInit ==
    /\ n_input \in StringsUpTo(MaxNameLen)
    /\ n_once = <<>> /\ n_twice = <<>> /\ npc = "start"
    /\ FetchIdle /\ AggIdle /\ PipeIdle

\* key = normalize_journal_name(venue)
NormalizeOnce ==
    /\ npc = "start"
    /\ n_once' = normalize_journal_name(n_input)
    /\ npc' = "once"
    /\ UNCHANGED <<n_input, n_twice, fetchVars, aggVars, pipeVars>>

\* normalize_journal_name(key), as get_journal_if applies it to a key
NormalizeTwice ==
    /\ npc = "once"
    /\ n_twice' = normalize_journal_name(n_once)
    /\ npc' = "twice"
    /\ UNCHANGED <<n_input, n_once, fetchVars, aggVars, pipeVars>>

NormNext == NormalizeOnce \/ NormalizeTwice

NormSpec == NormInit /\ [][NormNext]_vars

\* C8: normalize_journal_name is idempotent: for every input string x,
\* normalize(normalize(x)) = normalize(x).
C8_Idempotent == npc = "twice" => n_twice = n_once

-----------------------------------------------------------------------------
(* FetchSpec: get_publications against an upstream that answers every request *)
(* with a page of any size up to the one asked for, or with an error          *)

\* "num": 100, the page size asked for, and the step of `start`.
PageSize == 100

\* The largest max_papers tried.
MaxResults == 250

\* max_papers: every value up to the bound, and a negative one.
MaxPapersInputs == {-1} \cup (0..MaxResults)

\* The articles of the response to the request at offset s that holds n of them:
\* the upstream's items s+1 .. s+n, in upstream order.
Articles(s, n) == [i \in 1..n |-> s + i]

\* for article in articles: all_pubs.append(pub)
AppendAll(pubs, articles) == pubs \o articles

\* A loop that stops on an empty page only: the short-page break left out.
LastPageEmptyOnly(articles) == articles = <<>>

\* if len(articles) < 100: break   (the empty page of `if not articles` included)
LastPage(articles) == articles = <<>> \/ Len(articles) < PageSize

\* while len(all_pubs) < max_papers
LoopGuard == Len(all_pubs) < max_papers

\* return all_pubs, the cap left out.
ReturnedUncapped(pubs, n) == pubs

\* return all_pubs[:max_papers]
Returned(pubs, n) == SlicePrefix(pubs, n)

FetchInit ==
    /\ max_papers \in MaxPapersInputs
    /\ all_pubs = <<>> /\ start = 0 /\ fpc = "loop"
    /\ result = <<>> /\ requests = <<>> /\ page_sizes = <<>> /\ fetched = <<>>
    /\ NormIdle /\ AggIdle /\ PipeIdle

\* One pass of the loop body whose request is answered with n articles.
FetchPage(n) ==
    /\ fpc = "loop"
    /\ LoopGuard
    /\ LET articles == Articles(start, n)
       IN  /\ requests' = Append(requests, start)
           /\ page_sizes' = Append(page_sizes, n)
           /\ fetched' = fetched \o articles
           /\ IF articles = <<>>
              THEN all_pubs' = all_pubs
              ELSE all_pubs' = AppendAll(all_pubs, articles)
           /\ IF LastPage(articles)
              THEN /\ fpc' = "return"
                   /\ start' = start
              ELSE /\ fpc' = "loop"
                   /\ start' = start + PageSize
    /\ UNCHANGED <<max_papers, result, normVars, aggVars, pipeVars>>

\* One pass of the loop body whose request raises (serpapi_request: urlopen or
\* json.loads fails); nothing in get_publications catches it.
FetchRaises ==
    /\ fpc = "loop"
    /\ LoopGuard
    /\ requests' = Append(requests, start)
    /\ fpc' = "raised"
    /\ UNCHANGED <<max_papers, all_pubs, start, result, page_sizes, fetched,
                   normVars, aggVars, pipeVars>>

\* The loop ends (its guard is false, or a break was taken) and the slice is returned.
FetchReturn ==
    /\ \/ fpc = "return"
       \/ fpc = "loop" /\ ~LoopGuard
    /\ result' = Returned(all_pubs, max_papers)
    /\ fpc' = "done"
    /\ UNCHANGED <<max_papers, all_pubs, start, requests, page_sizes, fetched,
                   normVars, aggVars, pipeVars>>

FetchNext ==
    \/ \E n \in 0..PageSize : FetchPage(n)
    \/ FetchRaises
    \/ FetchReturn

\* The interpreter runs the loop to its end: a step that can be taken is taken.
FetchSpec == FetchInit /\ [][FetchNext]_vars /\ WF_vars(FetchNext)

RECURSIVE SumSeq(_, _)
SumSeq(s, n) == IF n = 0 THEN 0 ELSE s[n] + SumSeq(s, n - 1)

FetchFinished == fpc \in {"done", "raised"}

\* Requests go out at 0, 100, 200, ... and each one after the first follows only
\* full pages that left the accumulated count below max_papers.
RequestsInOrder ==
    /\ \A i \in 1..Len(requests) : requests[i] = (i - 1) * PageSize
    /\ Len(page_sizes) <= Len(requests)
    /\ \A i \in 2..Len(requests) :
          /\ i - 1 <= Len(page_sizes)
          /\ page_sizes[i - 1] = PageSize
          /\ SumSeq(page_sizes, i - 1) < max_papers
    /\ Len(requests) > 0 => max_papers > 0

\* C1: for every sequence of upstream pages and every max_papers, get_publications
\* terminates, requesting pages at offsets 0, 100, 200, ... in order, with no request
\* after a page of zero or fewer than 100 records nor once the accumulated count has
\* reached max_papers; pages of 100, 100, 37 with max_papers >= 237 give exactly 3
\* requests and 237 records.
C1_Pagination ==
    /\ []RequestsInOrder
    /\ [](fpc = "done" /\ page_sizes = <<100, 100, 37>> /\ max_papers >= 237
            => Len(requests) = 3 /\ Len(result) = 237)
    /\ <>FetchFinished

C1_Witness ==
    /\ fpc = "done" /\ page_sizes = <<100, 100, 37>> /\ max_papers >= 237
    /\ requests = <<0, 100, 200>> /\ Len(result) = 237

\* C2: for every max_papers >= 0 the list returned is exactly the first
\* min(max_papers, number fetched) records in the order they were fetched.
C2_FirstInOrder ==
    fpc = "done" /\ max_papers >= 0
      => result = SubSeq(fetched, 1, Min(max_papers, Len(fetched)))

C2_Witness ==
    /\ fpc = "done" /\ max_papers = 50 /\ page_sizes = <<100>>
    /\ result = [i \in 1..50 |-> i]

-----------------------------------------------------------------------------
(* AggSpec: the grouping and ordering of generate_html *)

\* The longest publication list tried.
MaxWorks == 4

\* pub["year"] is an int >= 0 (get_publications, line 80); 0 is "no year".
Years == {0, 999, 2021, 2023}

\* pub["citations"]
Citations == {1, 5, 10}

DigitChar(d) == CASE d = 0 -> "0" [] d = 1 -> "1" [] d = 2 -> "2" [] d = 3 -> "3"
                  [] d = 4 -> "4" [] d = 5 -> "5" [] d = 6 -> "6" [] d = 7 -> "7"
                  [] d = 8 -> "8" [] d = 9 -> "9"

DigitValue(c) == CHOOSE d \in 0..9 : DigitChar(d) = c

\* str(n) for n >= 0: the decimal digits.
RECURSIVE str(_)
str(n) == IF n < 10 THEN <<DigitChar(n)>> ELSE Append(str(n \div 10), DigitChar(n % 10))

\* int(s) for a string of decimal digits.
RECURSIVE int(_)
int(s) ==
    IF Len(s) = 1 THEN DigitValue(s[1])
    ELSE 10 * int(SubSeq(s, 1, Len(s) - 1)) + DigitValue(s[Len(s)])

Other == <<"O", "t", "h", "e", "r">>

\* year_key = str(year) if year > 0 else "Other"
year_key(pub) == IF pub.year > 0 THEN str(pub.year) ELSE Other

\* pubs_by_year: each key with its publications in input order.
pubs_by_year(pubs) ==
    [k \in {year_key(pubs[i]) : i \in 1..Len(pubs)} |->
        SelectSeq(pubs, LAMBDA p : year_key(p) = k)]

\* sorted(keys, key=lambda x: int(x), reverse=True) on distinct keys.
RECURSIVE SortedByIntDesc(_)
SortedByIntDesc(keys) ==
    IF keys = {} THEN <<>>
    ELSE LET top == CHOOSE k \in keys : \A o \in keys : int(k) >= int(o)
         IN  <<top>> \o SortedByIntDesc(keys \ {top})

\* sorted_years: the numeric keys descending, then "Other" if present.
sorted_years(by_year) ==
    LET numeric == SortedByIntDesc(DOMAIN by_year \ {Other})
    IN  IF Other \in DOMAIN by_year THEN Append(numeric, Other) ELSE numeric

\* key=lambda x: x.get("citations") or 0
CitationKey(pub) == IF pub.citations = 0 THEN 0 ELSE pub.citations

\* p put into a list already sorted descending, after every element whose key is
\* not smaller: equal keys keep their order of arrival.
RECURSIVE InsertDesc(_, _)
InsertDesc(sorted, p) ==
    IF sorted = <<>> THEN <<p>>
    ELSE IF CitationKey(Head(sorted)) >= CitationKey(p)
         THEN <<Head(sorted)>> \o InsertDesc(Tail(sorted), p)
         ELSE <<p>> \o sorted

\* p put before the elements of equal key: what reversing an ascending sort does.
RECURSIVE InsertDescTiesFirst(_, _)
InsertDescTiesFirst(sorted, p) ==
    IF sorted = <<>> THEN <<p>>
    ELSE IF CitationKey(Head(sorted)) > CitationKey(p)
         THEN <<Head(sorted)>> \o InsertDescTiesFirst(Tail(sorted), p)
         ELSE <<p>> \o sorted

RECURSIVE SortedTiesReversed(_)
SortedTiesReversed(pubs) ==
    IF pubs = <<>> THEN <<>>
    ELSE InsertDescTiesFirst(SortedTiesReversed(SubSeq(pubs, 1, Len(pubs) - 1)), pubs[Len(pubs)])

\* sorted(pubs, key=..., reverse=True): Python's sort is stable, and reverse=True
\* keeps the original order of equal keys.
RECURSIVE pubs_sorted(_)
pubs_sorted(pubs) ==
    IF pubs = <<>> THEN <<>>
    ELSE InsertDesc(pubs_sorted(SubSeq(pubs, 1, Len(pubs) - 1)), pubs[Len(pubs)])

\* The year sections in the order generate_html emits them.
year_sections(pubs) ==
    LET by_year == pubs_by_year(pubs)
        order   == sorted_years(by_year)
    IN  [g \in 1..Len(order) |-> [year |-> order[g], pubs |-> pubs_sorted(by_year[order[g]])]]

WorkLists ==
    UNION {[1..n -> [year : Years, citations : Citations]] : n \in 0..MaxWorks}

\* Each publication carries its position in the fetched list as its identity.
AggInit ==
    /\ \E l \in WorkLists :
          works = [i \in 1..Len(l) |-> [id |-> i, year |-> l[i].year, citations |-> l[i].citations]]
    /\ groups = <<>> /\ apc = "start"
    /\ FetchIdle /\ NormIdle /\ PipeIdle

Aggregate ==
    /\ apc = "start"
    /\ groups' = year_sections(works)
    /\ apc' = "done"
    /\ UNCHANGED <<works, fetchVars, normVars, pipeVars>>

AggNext == Aggregate

AggSpec == AggInit /\ [][AggNext]_vars

RECURSIVE Flatten(_)
Flatten(gs) == IF gs = <<>> THEN <<>> ELSE Head(gs).pubs \o Flatten(Tail(gs))

\* C7: the year groups come out in numerically descending year order with "Other"
\* (year 0) last; inside a group the works are ordered by citation count descending,
\* ties in input order; every input work appears exactly once.
C7_Ordering ==
    apc = "done" =>
      /\ \A g \in 1..Len(groups) :
            /\ groups[g].pubs # <<>>
            /\ \A i \in 1..Len(groups[g].pubs) :
                  LET p == groups[g].pubs[i]
                  IN  IF p.year > 0 THEN groups[g].year # Other /\ int(groups[g].year) = p.year
                                    ELSE groups[g].year = Other
            /\ \A i \in 1..(Len(groups[g].pubs) - 1) :
                  LET a == groups[g].pubs[i]
                      b == groups[g].pubs[i + 1]
                  IN  \/ a.citations > b.citations
                      \/ a.citations = b.citations /\ a.id < b.id
      /\ \A g \in 1..(Len(groups) - 1) :
            /\ groups[g].year # Other
            /\ groups[g + 1].year # Other => int(groups[g].year) > int(groups[g + 1].year)
      /\ LET flat == Flatten(groups)
         IN  /\ Len(flat) = Len(works)
             /\ \A i \in 1..Len(works) : \E j \in 1..Len(flat) : flat[j] = works[i]

C7_Witness ==
    /\ apc = "done"
    /\ [i \in 1..Len(works) |-> works[i].year] = <<2021, 2023, 0, 2023>>
    /\ [i \in 1..Len(works) |-> works[i].citations] = <<5, 10, 1, 10>>
    /\ [g \in 1..Len(groups) |-> groups[g].year] = <<str(2023), str(2021), Other>>
    /\ [i \in 1..Len(groups[1].pubs) |-> groups[1].pubs[i].id] = <<2, 4>>

-----------------------------------------------------------------------------
(* Spec: main(), run after run, against the files it leaves behind *)

\* How many runs of the pipeline are followed.
MaxRuns == 2

Title == <<"T">>

Pub(title, venue, year, citations) ==
    [title |-> title, venue |-> venue, year |-> year, citations |-> citations]

\* What get_publications may hand to main: no publication; two venue strings with
\* one key (with and without a volume suffix); two keys; three keys; a venue with a
\* tab before its trailing dot beside the plain venue; an article whose "title" is
\* JSON null, with and without a venue.
PubLists == {
    <<>>,
    <<Pub(Some(Title), <<"A">>, 2024, 30), Pub(Some(Title), <<"A", " ", "1", " ", "(">>, 2022, 3)>>,
    <<Pub(Some(Title), <<"A">>, 2024, 30), Pub(Some(Title), <<"B">>, 2024, 30)>>,
    <<Pub(Some(Title), <<"A">>, 2021, 5), Pub(Some(Title), <<"B">>, 2023, 10),
      Pub(Some(Title), <<"C">>, 0, 1)>>,
    <<Pub(Some(Title), <<"B", "\t", ".">>, 2023, 10), Pub(Some(Title), <<"B">>, 0, 1)>>,
    <<Pub(None, <<>>, 2021, 5)>>,
    <<Pub(None, <<"C">>, 2021, 5)>> }

\* round(impact, 1), in tenths: 0.0 and 4.2.
ImpactValues == {0, 42}

\* What the OpenAlex request of get_journal_if can end in: an exception (urlopen,
\* json.loads), no result, a result without the metric, a result with it.
Responses ==
    {[kind |-> "raise"], [kind |-> "empty"], [kind |-> "nometric"]}
        \cup {[kind |-> "metric", impact |-> v] : v \in ImpactValues}

\* Every key the publications above can lead to.
AllKeys ==
    LET once == UNION {{normalize_journal_name(l[i].venue) : i \in 1..Len(l)} : l \in PubLists}
    IN  {k \in once \cup {normalize_journal_name(k) : k \in once} : k # <<>>}

\* A load that starts every run from the empty mapping.
load_if_cache_empty(file) == <<>>

\* load_if_cache on a file that json.load accepts, or on no file.
load_if_cache(file) == IF file.state = "valid" THEN file.data ELSE <<>>

\* cache[normalized] = value
CachePut(c, k, v) == (k :> v) @@ c

\* if_cache.get(key)
CacheGet(c, k) == IF k \in DOMAIN c THEN c[k] ELSE None

\* The set `journals` of get_all_impact_factors.
CollectJournals(pubs, c) ==
    {k \in {normalize_journal_name(pubs[i].venue) : i \in 1..Len(pubs)} :
        k # <<>> /\ k \notin DOMAIN c}

\* Whether get_journal_if(journal_name, cache) gets as far as the request.
Requests(journal_name, c) ==
    LET normalized == normalize_journal_name(journal_name)
    IN  normalized # <<>> /\ normalized \notin DOMAIN c

\* The cache get_journal_if leaves, its request answered with response r.
get_journal_if(journal_name, c, r) ==
    LET normalized == normalize_journal_name(journal_name)
    IN  IF ~Requests(journal_name, c) THEN c
        ELSE CASE r.kind = "raise"    -> c
               [] r.kind = "empty"    -> CachePut(c, normalized, None)
               [] r.kind = "nometric" -> CachePut(c, normalized, None)
               [] r.kind = "metric"   -> CachePut(c, normalized, Some(r.impact))

\* is_corresponding_author(title, ...) calls title.lower(): None has no lower().
RenderRaises(pubs) == \E i \in 1..Len(pubs) : pubs[i].title = None

\* impact_factor = if_cache.get(normalized_venue); the badge is shown
\* if impact_factor and impact_factor > 0.
Item(pub, if_cache) ==
    LET impact_factor == CacheGet(if_cache, normalize_journal_name(pub.venue))
    IN  [pub |-> pub,
         impact_factor |-> impact_factor,
         badge |-> impact_factor # None /\ impact_factor[1] # 0 /\ impact_factor[1] > 0]

\* The page: the year sections, each publication with its impact factor.
generate_html(pubs, if_cache) ==
    LET sections == year_sections(pubs)
    IN  [g \in 1..Len(sections) |->
            [year  |-> sections[g].year,
             items |-> [i \in 1..Len(sections[g].pubs) |-> Item(sections[g].pubs[i], if_cache)]]]

runLogs == <<wrote, batch, loaded, attempted, failedKeys, lastLookup, lookups, failedAt,
            saves>>
files == <<cacheFile, jsonFile, htmlFile>>
others == <<fetchVars, normVars, aggVars>>

\* Before the first run if_cache.json is absent, or holds something json.load
\* rejects; the two output files are absent.
Init ==
    /\ pc = "idle" /\ run = 0 /\ publications = <<>> /\ cache = <<>> /\ journals = {}
    /\ cacheFile \in {[state |-> "missing", data |-> <<>>], [state |-> "corrupt", data |-> <<>>]}
    /\ jsonFile = None /\ htmlFile = None /\ wrote = {}
    /\ batch = {} /\ loaded = <<>> /\ attempted = {} /\ failedKeys = {}
    /\ lastLookup = <<>> /\ lookups = <<>> /\ failedAt = ""
    /\ lookupCount = [k \in AllKeys |-> 0] /\ saves = 0
    /\ FetchIdle /\ NormIdle /\ AggIdle

Fail(step) ==
    /\ pc' = "failed"
    /\ failedAt' = step

\* python update_publications.py with SERPAPI_KEY set.
StartRun ==
    /\ pc \in {"idle", "done", "failed"}
    /\ run < MaxRuns
    /\ run' = run + 1
    /\ pc' = "stats"
    /\ publications' = <<>> /\ cache' = <<>> /\ journals' = {}
    /\ wrote' = {} /\ batch' = {} /\ loaded' = <<>> /\ attempted' = {} /\ failedKeys' = {}
    /\ lastLookup' = <<>> /\ lookups' = <<>> /\ failedAt' = "" /\ saves' = 0
    /\ UNCHANGED <<files, lookupCount, others>>

\* ... with SERPAPI_KEY unset: exit(1).
StartRunNoKey ==
    /\ pc \in {"idle", "done", "failed"}
    /\ run < MaxRuns
    /\ run' = run + 1
    /\ publications' = <<>> /\ cache' = <<>> /\ journals' = {}
    /\ wrote' = {} /\ batch' = {} /\ loaded' = <<>> /\ attempted' = {} /\ failedKeys' = {}
    /\ lastLookup' = <<>> /\ lookups' = <<>> /\ saves' = 0
    /\ Fail("key")
    /\ UNCHANGED <<files, lookupCount, others>>

\* [1/5] stats = get_author_info()
GetAuthorInfo ==
    /\ pc = "stats"
    /\ pc' = "pubs"
    /\ UNCHANGED <<run, publications, cache, journals, files, runLogs, lookupCount, others>>

GetAuthorInfoRaises ==
    /\ pc = "stats"
    /\ Fail("stats")
    /\ UNCHANGED <<run, publications, cache, journals, files, wrote, batch, loaded, attempted,
                   failedKeys, lastLookup, lookups, saves, lookupCount, others>>

\* [2/5] publications = get_publications(MAX_PAPERS)
GetPublications ==
    /\ pc = "pubs"
    /\ publications' \in PubLists
    /\ pc' = "load"
    /\ UNCHANGED <<run, cache, journals, files, runLogs, lookupCount, others>>

\* ... one of its page requests raises: the first, or a later one.
GetPublicationsRaises ==
    /\ pc = "pubs"
    /\ Fail("pubs")
    /\ UNCHANGED <<run, publications, cache, journals, files, wrote, batch, loaded, attempted,
                   failedKeys, lastLookup, lookups, saves, lookupCount, others>>

\* [3/5] get_all_impact_factors: cache = load_if_cache() and the collection of
\* `journals`; json.load raises on a file that is not JSON.
LoadCache ==
    /\ pc = "load"
    /\ IF cacheFile.state = "corrupt"
       THEN /\ Fail("load")
            /\ UNCHANGED <<cache, journals, batch, loaded>>
       ELSE /\ cache' = load_if_cache(cacheFile)
            /\ journals' = CollectJournals(publications, cache')
            /\ batch' = journals'
            /\ loaded' = cache'
            /\ pc' = "lookup"
            /\ failedAt' = failedAt
    /\ UNCHANGED <<run, publications, files, wrote, attempted, failedKeys, lastLookup, lookups, saves,
                   lookupCount, others>>

\* One pass of `for journal in journals`, in the order the set happens to give:
\* get_journal_if(journal, cache), its request (if it makes one) answered with r.
LookupJournal(journal, r) ==
    /\ pc = "lookup"
    /\ journal \in journals
    /\ journals' = journals \ {journal}
    /\ cache' = get_journal_if(journal, cache, r)
    /\ LET normalized == normalize_journal_name(journal)
       IN  IF Requests(journal, cache)
           THEN /\ attempted' = attempted \cup {normalized}
                /\ lookupCount' = [lookupCount EXCEPT ![normalized] = @ + 1]
                /\ lastLookup' = <<normalized, r.kind>>
                /\ lookups' = Append(lookups, [journal |-> journal, key |-> normalized, r |-> r])
                /\ failedKeys' = IF r.kind = "raise" THEN failedKeys \cup {normalized}
                                                   ELSE failedKeys
           ELSE UNCHANGED <<attempted, lookupCount, lastLookup, lookups, failedKeys>>
    /\ UNCHANGED <<pc, run, publications, files, wrote, batch, loaded, failedAt, saves, others>>

\* save_if_cache(cache) after the loop.
SaveCache ==
    /\ pc = "lookup"
    /\ journals = {}
    /\ cacheFile' = [state |-> "valid", data |-> cache]
    /\ wrote' = wrote \cup {"cache"}
    /\ saves' = saves + 1
    /\ pc' = "corr"
    /\ UNCHANGED <<run, publications, cache, journals, jsonFile, htmlFile, batch, loaded,
                   attempted, failedKeys, lastLookup, lookups, failedAt, lookupCount, others>>

\* [4/5] corresponding_list = load_corresponding_papers()
LoadCorrespondingPapers ==
    /\ pc = "corr"
    /\ pc' = "json"
    /\ UNCHANGED <<run, publications, cache, journals, files, runLogs, lookupCount, others>>

\* [5/5] json.dump(data) to publications.json
WriteJson ==
    /\ pc = "json"
    /\ jsonFile' = Some(publications)
    /\ wrote' = wrote \cup {"json"}
    /\ pc' = "render"
    /\ UNCHANGED <<run, publications, cache, journals, cacheFile, htmlFile, batch, loaded,
                   attempted, failedKeys, lastLookup, lookups, failedAt, saves, lookupCount, others>>

\* html = generate_html(...) and its write to index.html
GenerateHtml ==
    /\ pc = "render"
    /\ IF RenderRaises(publications)
       THEN /\ Fail("render")
            /\ UNCHANGED <<htmlFile, wrote>>
       ELSE /\ htmlFile' = Some(generate_html(publications, cache))
            /\ wrote' = wrote \cup {"html"}
            /\ pc' = "done"
            /\ failedAt' = failedAt
    /\ UNCHANGED <<run, publications, cache, journals, cacheFile, jsonFile, batch, loaded,
                   attempted, failedKeys, lastLookup, lookups, saves, lookupCount, others>>

Next ==
    \/ StartRun
    \/ StartRunNoKey
    \/ GetAuthorInfo
    \/ GetAuthorInfoRaises
    \/ GetPublications
    \/ GetPublicationsRaises
    \/ LoadCache
    \/ \E journal \in AllKeys, r \in Responses : LookupJournal(journal, r)
    \/ SaveCache
    \/ LoadCorrespondingPapers
    \/ WriteJson
    \/ GenerateHtml

Spec == Init /\ [][Next]_vars

-----------------------------------------------------------------------------
(* The claims about the metrics cache and the run as a whole *)

\* The mapping if_cache.json holds; nothing when it is absent or unreadable.
Persisted(file) == IF file.state = "valid" THEN file.data ELSE <<>>

\* The loop of get_all_impact_factors has ended and the cache has been saved.
BatchDone == saves > 0

\* C3: a key present in the cache (a stored null included) is never looked up again,
\* in the same run or a later one; a key absent from it is looked up; over
\* consecutive batches each key is requested once, not twice.
C3_NeverRequeried ==
    /\ attempted \cap DOMAIN loaded = {}
    /\ BatchDone => batch \subseteq attempted
    /\ \A k \in AllKeys : lookupCount[k] <= 1

\* C4: on any failure of a key's lookup (exception, missing metric, no result) the
\* key is recorded in the cache with value null, so that after the batch every key
\* that was attempted is in the cache.
C4_FailureRecordsNull ==
    /\ lastLookup # <<>> /\ lastLookup[2] \in {"raise", "empty", "nometric"}
         => lastLookup[1] \in DOMAIN cache /\ cache[lastLookup[1]] = None
    /\ BatchDone => attempted \subseteq DOMAIN cache

\* C5: a failed lookup never aborts the batch or raises out of it: whichever keys
\* fail, every other key of the batch is looked up and its result is put in the
\* cache, and the cache is persisted once, after the whole key set.
C5_FailureIsolation ==
    /\ failedAt # "lookup"
    /\ saves <= 1
    /\ BatchDone =>
         /\ journals = {}
         /\ cacheFile = [state |-> "valid", data |-> cache]
         /\ \A k \in batch \ failedKeys : k \in attempted /\ k \in DOMAIN cache

\* The isolation itself, on the keys normalize_journal_name leaves as they are: what
\* C5 states holds of them.
IsolationOnStableKeys ==
    /\ failedAt # "lookup"
    /\ saves <= 1
    /\ BatchDone =>
         /\ journals = {}
         /\ cacheFile = [state |-> "valid", data |-> cache]
         /\ \A k \in batch \ failedKeys :
               normalize_journal_name(k) = k => k \in attempted /\ k \in DOMAIN cache

\* C6: a run either writes the complete snapshot together with the cache update or
\* fails before writing any output; a failure of the author-stats request or of a
\* works page is a failed run with nothing written.
C6_AllOrNothing ==
    /\ pc = "failed" => wrote = {}
    /\ pc = "done" => wrote = {"cache", "json", "html"}
    /\ failedAt \in {"stats", "pubs"} => pc = "failed" /\ wrote = {}

\* C9: loading the metrics cache never fails the pipeline: with if_cache.json
\* missing or unreadable the load gives the empty mapping and the run goes on.
C9_LoadNeverFails ==
    /\ failedAt # "load"
    /\ pc = "lookup" /\ cacheFile.state \in {"missing", "corrupt"} => loaded = <<>>

\* C10: the persisted cache only grows: every key in it before a step is in it
\* after the step with the same value, and the keys a step adds are keys looked up
\* in that batch.
C10_OnlyGrows ==
    [][LET old == Persisted(cacheFile)
           new == Persisted(cacheFile')
       IN  /\ cacheFile.state = "valid" => cacheFile'.state = "valid"
           /\ \A k \in DOMAIN old : k \in DOMAIN new /\ new[k] = old[k]
           /\ (DOMAIN new) \ (DOMAIN old) \subseteq attempted]_vars

\* A second run has saved a cache that keeps a null entry of the first run and adds
\* a key of its own.
C10_Witness ==
    /\ run = 2 /\ BatchDone
    /\ \E k \in DOMAIN loaded : loaded[k] = None /\ k \in DOMAIN Persisted(cacheFile)
    /\ \E k \in attempted : k \in DOMAIN Persisted(cacheFile) /\ k \notin DOMAIN loaded

-----------------------------------------------------------------------------
(* The join of works to cache entries *)

\* The publications of the page with what generate_html attached to each.
RECURSIVE Items(_)
Items(sections) ==
    IF sections = <<>> THEN <<>> ELSE Head(sections).items \o Items(Tail(sections))

\* What C11 states of the request lookups[n], which obtained a metric for the key
\* (the element of `journals`) it was made for: every work of that key carries the
\* metric on the page, and the search was sent once in the batch.
JoinedAt(n) ==
    LET k     == lookups[n].journal
        m     == lookups[n].r.impact
        items == Items(htmlFile[1])
    IN  /\ \A i \in 1..Len(items) :
              normalize_journal_name(items[i].pub.venue) = k
                  => items[i].impact_factor = Some(m)
        /\ Cardinality({j \in 1..Len(lookups) : lookups[j].key = lookups[n].key}) = 1

\* C11: works whose venue strings normalize to the same key are joined to the same
\* cache entry: after a run in which the resolver obtained metric m for key k, every
\* work w with normalize(w.venue) = k has m attached in the output, whatever
\* volume/issue/page suffix w.venue has, and the key is looked up once for them all.
C11_JoinedByKey ==
    pc = "done" =>
        \A n \in 1..Len(lookups) : lookups[n].r.kind = "metric" => JoinedAt(n)

\* The same on the batches whose keys normalize_journal_name leaves as they are:
\* what C11 states holds of them.
JoinOnStableBatches ==
    pc = "done" /\ (\A k \in batch : normalize_journal_name(k) = k) =>
        \A n \in 1..Len(lookups) : lookups[n].r.kind = "metric" => JoinedAt(n)

\* The two venue strings "A" and "A 1 (" of one run, one request, 4.2 on both works.
JoinExample ==
    /\ pc = "done"
    /\ Len(lookups) = 1 /\ lookups[1].r = [kind |-> "metric", impact |-> 42]
    /\ LET items == Items(htmlFile[1])
       IN  /\ Len(items) = 2
           /\ items[1].pub.venue = <<"A">> /\ items[2].pub.venue = <<"A", " ", "1", " ", "(">>
           /\ items[1].impact_factor = Some(42) /\ items[2].impact_factor = Some(42)
           /\ items[1].badge /\ items[2].badge

=============================================================================
